---- MODULE Spec2Model ----
(***************************************************************************)
(* Model of the Advent-of-Code 2018 solvers: day 3 (Rect parsing, geometry *)
(* and part1's overlap computation, src/src/day3.rs) and day 1 (do_part2,  *)
(* src/src/day1.rs).                                                       *)
(*                                                                         *)
(* The day 3 code is a set of pure functions; each is an operator here and *)
(* is applied by an action to inputs that Init draws from bounded sets.    *)
(* do_part2 is an iterator pipeline that is pulled until the first repeat; *)
(* one pull of the pipeline is one action.                                 *)
(***************************************************************************)
EXTENDS Integers, Sequences, FiniteSets

VARIABLES
    a, b,          \* the two Rects handed to Rect::intersect; a is also the Rect handed to Rect::holes
    isect,         \* outcome of a.intersect(&b)
    hs,            \* outcome of a.holes()
    input,         \* part1: the Vec<Rect> read from the data file
    result,        \* part1: the number it prints (holes.len())
    line,          \* the &str handed to Rect::from_str, a sequence of characters
    parsed,        \* outcome of Rect::from_str(line)
    fields,        \* history: what the line was written from (numbers, or the kind of defect)
    adjustments,   \* do_part2: the parsed adjustments, in file order
    pos,           \* do_part2: index of the next adjustment the cycle() yields
    freq,          \* do_part2: the scan() accumulator
    frequencies,   \* do_part2: the BTreeSet of totals seen so far
    answer,        \* do_part2: the value returned
    pc             \* do_part2: "run", "done" or "panic" (unwrap of None)

vars == <<a, b, isect, hs, input, result, line, parsed, fields,
          adjustments, pos, freq, frequencies, answer, pc>>

(***************************************************************************)
(* Bounds                                                                  *)
(***************************************************************************)
MaxCoord == 3     \* x and y of the Rects of the geometry specification
MaxSize == 2      \* width and height of those Rects
MaxRects == 3     \* length of part1's input
MaxCell == 2      \* x and y of the Rects of part1's input
MaxSide == 2      \* width and height of the Rects of part1's input
MaxNum == 10      \* numbers printed into the lines handed to from_str
MaxLen == 3       \* length of the adjustment list of do_part2
MaxAdj == 2       \* magnitude of one adjustment
MaxFreq == 16     \* magnitude of a running total the model follows

Unset == [tag |-> "Unset"]

Min(m, n) == IF m <= n THEN m ELSE n
Max(m, n) == IF m >= n THEN m ELSE n

(***************************************************************************)
(* day3.rs: struct Rect, struct Point                                      *)
(***************************************************************************)
Rect(x, y, width, height) == [x |-> x, y |-> y, width |-> width, height |-> height]
Point(x, y) == [x |-> x, y |-> y]

None == [tag |-> "None"]
Some(r) == [tag |-> "Some", rect |-> r]

\* fn right(&self): self.x + self.width
right(self) == self.x + self.width
\* fn bottom(&self): self.y + self.height
bottom(self) == self.y + self.height

\* fn left_right(&self, other): (leftest, rightest) by x, self first on a tie
left_right(self, other) ==
    IF self.x <= other.x THEN <<self, other>> ELSE <<other, self>>

\* fn high_low(&self, other): (highest, lowest) by y, self first on a tie
high_low(self, other) ==
    IF self.y <= other.y THEN <<self, other>> ELSE <<other, self>>

\* mutant: the width is measured from self's right edge only
intersect_selfRight(self, other) ==
    LET lr == left_right(self, other)
        hl == high_low(self, other)
    IN  IF right(lr[1]) < lr[2].x \/ bottom(hl[1]) < hl[2].y
        THEN None
        ELSE Some(Rect(lr[2].x, hl[2].y,
                       right(self) - lr[2].x,
                       Min(bottom(self), bottom(other)) - hl[2].y))

\* mutant: only the horizontal separation is tested
intersect_noVerticalTest(self, other) ==
    LET lr == left_right(self, other)
        hl == high_low(self, other)
    IN  IF right(lr[1]) < lr[2].x
        THEN None
        ELSE Some(Rect(lr[2].x, hl[2].y,
                       Min(right(self), right(other)) - lr[2].x,
                       Min(bottom(self), bottom(other)) - hl[2].y))

\* fn intersect(&self, other) -> Option<Rect>.  The subtractions are usize
\* subtractions; they are kept as integer subtractions here so that a
\* negative field shows a subtraction that would underflow.
intersect(self, other) ==
    LET lr == left_right(self, other)
        hl == high_low(self, other)
    IN  IF right(lr[1]) < lr[2].x \/ bottom(hl[1]) < hl[2].y
        THEN None
        ELSE Some(Rect(lr[2].x, hl[2].y,
                       Min(right(self), right(other)) - lr[2].x,
                       Min(bottom(self), bottom(other)) - hl[2].y))

\* mutant: the ranges are half-open (..) instead of inclusive (..=)
holes_halfOpen(self) ==
    { Point(px, py) : px \in self.x .. (self.x + self.width - 1),
                      py \in self.y .. (self.y + self.height - 1) }

\* fn holes(&self) -> HashSet<Point>: both ranges are inclusive (..=)
holes(self) ==
    { Point(px, py) : px \in self.x .. (self.x + self.width),
                      py \in self.y .. (self.y + self.height) }

(***************************************************************************)
(* day3.rs: part1, from the parsed input to the number printed             *)
(***************************************************************************)
\* input.iter().flat_map(|a| input.iter().map(move |b| (a, b))): every
\* ordered pair, the first component varying slowest
pairs(in) ==
    LET n == Len(in)
    IN  [k \in 1 .. (n * n) |-> <<in[((k - 1) \div n) + 1], in[((k - 1) % n) + 1]>>]

\* .filter(|(a, b)| a != b): Rect's derived PartialEq compares the four fields
differentPairs(in) == SelectSeq(pairs(in), LAMBDA p : p[1] # p[2])

\* .flat_map(|(a, b)| a.intersect(b)).map(|intersection| intersection.holes()):
\* the None results are dropped, each Some(r) becomes r.holes()
intersectionHoles(in) ==
    LET dp == differentPairs(in)
        opts == [k \in 1 .. Len(dp) |-> intersect(dp[k][1], dp[k][2])]
        somes == SelectSeq(opts, LAMBDA o : o.tag = "Some")
    IN  [k \in 1 .. Len(somes) |-> holes(somes[k].rect)]

\* the closure of the fold, |part, whole| { whole.union(&part); whole }:
\* part is the accumulator and whole the element; union() builds a lazy
\* iterator that is dropped unused, and the element is returned
foldClosure(part, whole) == whole

RECURSIVE fold(_, _)
fold(acc, items) ==
    IF items = <<>> THEN acc
    ELSE fold(foldClosure(acc, Head(items)), Tail(items))

\* holes.len() of .fold(HashSet::new(), ...)
part1(in) == Cardinality(fold({}, intersectionHoles(in)))

(***************************************************************************)
(* day3.rs: impl FromStr for Rect.  A &str is a sequence of one-character  *)
(* strings.                                                                *)
(***************************************************************************)
DigitChars == <<"0", "1", "2", "3", "4", "5", "6", "7", "8", "9">>

IsDigit(c) == \E d \in 1 .. 10 : DigitChars[d] = c
DigitValue(c) == (CHOOSE d \in 1 .. 10 : DigitChars[d] = c) - 1

Ok(v) == [tag |-> "Ok", value |-> v]
Err == [tag |-> "Err"]
Panic == [tag |-> "Panic"]

RECURSIVE digitsValue(_)
digitsValue(s) ==
    IF s = <<>> THEN 0
    ELSE digitsValue(SubSeq(s, 1, Len(s) - 1)) * 10 + DigitValue(s[Len(s)])

\* part.parse::<usize>(): an empty string and a lone sign are errors, one
\* leading '+' is accepted, '-' is not, every other character must be a
\* decimal digit
parseUsize(s) ==
    IF s = <<>> THEN Err
    ELSE LET d == IF s[1] = "+" /\ Len(s) > 1 THEN Tail(s) ELSE s
         IN  IF \A i \in 1 .. Len(d) : IsDigit(d[i])
             THEN Ok(digitsValue(d))
             ELSE Err

IsWhitespace(c) == c = " "

\* s.split_whitespace().collect(): the maximal runs of non-whitespace
RECURSIVE splitWhitespaceFrom(_, _, _)
splitWhitespaceFrom(s, cur, acc) ==
    IF s = <<>> THEN (IF cur = <<>> THEN acc ELSE Append(acc, cur))
    ELSE IF IsWhitespace(Head(s))
         THEN splitWhitespaceFrom(Tail(s), <<>>,
                                  IF cur = <<>> THEN acc ELSE Append(acc, cur))
         ELSE splitWhitespaceFrom(Tail(s), Append(cur, Head(s)), acc)

split_whitespace(s) == splitWhitespaceFrom(s, <<>>, <<>>)

\* mutant: the trailing ':' is left on the position token
trim_end_matches_none(s, c) == s

\* .trim_end_matches(':'): every trailing occurrence is removed
RECURSIVE trim_end_matches(_, _)
trim_end_matches(s, c) ==
    IF s # <<>> /\ s[Len(s)] = c
    THEN trim_end_matches(SubSeq(s, 1, Len(s) - 1), c)
    ELSE s

\* .splitn(2, sep): split at the first separator only; no separator gives
\* one piece
splitn2(s, sep) ==
    IF \E i \in 1 .. Len(s) : s[i] = sep
    THEN LET i == CHOOSE k \in 1 .. Len(s) :
                      s[k] = sep /\ \A m \in 1 .. (k - 1) : s[m] # sep
         IN  <<SubSeq(s, 1, i - 1), SubSeq(s, i + 1, Len(s))>>
    ELSE <<s>>

\* .map(|part| part.parse::<usize>()).collect::<Result<Vec<usize>, _>>():
\* the first error, or else all the values
parseAll(pieces) ==
    IF \E i \in 1 .. Len(pieces) : parseUsize(pieces[i]).tag = "Err"
    THEN Err
    ELSE Ok([i \in 1 .. Len(pieces) |-> parseUsize(pieces[i]).value])

\* fn from_str(s: &str) -> Result<Rect, Box<Error>>.  assert_eq! and the
\* indexing pos[1] / size[1] panic; parse errors are returned.  parts[0] and
\* parts[1] are never looked at, and Rect has no id field.
from_str(s) ==
    LET parts == split_whitespace(s)
    IN  IF Len(parts) # 4 THEN Panic
        ELSE
        LET p == parseAll(splitn2(trim_end_matches(parts[3], ":"), ","))
            z == parseAll(splitn2(parts[4], "x"))
        IN  IF p.tag = "Err" THEN Err
            ELSE IF Len(p.value) < 2 THEN Panic
            ELSE IF z.tag = "Err" THEN Err
            ELSE IF Len(z.value) < 2 THEN Panic
            ELSE Ok(Rect(p.value[1], p.value[2], z.value[1], z.value[2]))

(***************************************************************************)
(* day1.rs: do_part2                                                       *)
(***************************************************************************)
\* mutant: the starting frequency is not recorded as seen
InitialFrequencies_empty == {}

\* let mut frequencies = BTreeSet::new(); frequencies.insert(0);
InitialFrequencies == {0}

(***************************************************************************)
(* Inputs                                                                  *)
(***************************************************************************)
Rects == { Rect(x, y, w, h) : x \in 0 .. MaxCoord, y \in 0 .. MaxCoord,
                              w \in 0 .. MaxSize, h \in 0 .. MaxSize }

\* the Rects of test_rect_intersection_1
TestR1 == Rect(3, 1, 2, 6)
TestR2 == Rect(4, 2, 2, 6)

Cells == { Rect(x, y, w, h) : x \in 0 .. MaxCell, y \in 0 .. MaxCell,
                              w \in 1 .. MaxSide, h \in 1 .. MaxSide }

SeqsUpTo(S, n) == UNION { [1 .. k -> S] : k \in 0 .. n }

\* the three claims of the puzzle's example: #1 @ 1,3: 4x4, #2 @ 3,1: 4x4,
\* #3 @ 5,5: 2x2
ExampleInput == <<Rect(1, 3, 4, 4), Rect(3, 1, 4, 4), Rect(5, 5, 2, 2)>>

\* the decimal numeral of n
RECURSIVE Dec(_)
Dec(n) ==
    IF n < 10 THEN <<DigitChars[n + 1]>>
    ELSE Dec(n \div 10) \o <<DigitChars[(n % 10) + 1]>>

Line3(idTok, posTok, sizeTok) ==
    idTok \o <<" ", "@", " ">> \o posTok \o <<" ">> \o sizeTok

\* "#<id> @ <x>,<y>: <w>x<h>"
FormatLine(id, x, y, w, h) ==
    Line3(<<"#">> \o Dec(id),
          Dec(x) \o <<",">> \o Dec(y) \o <<":">>,
          Dec(w) \o <<"x">> \o Dec(h))

Valid(id, x, y, w, h) ==
    [tag |-> "Valid", id |-> id, x |-> x, y |-> y, width |-> w, height |-> h]
Malformed(kind) == [tag |-> "Malformed", kind |-> kind]

ValidLines ==
    { <<FormatLine(id, x, y, w, h), Valid(id, x, y, w, h)>> :
        id \in {1, 123}, x \in 0 .. MaxNum, y \in 0 .. MaxNum,
        w \in 1 .. MaxNum, h \in 1 .. MaxNum }

GoodId == <<"#", "1">>
GoodPos == <<"3", ",", "2", ":">>
GoodSize == <<"5", "x", "4">>

MalformedLines ==
    \* the number of tokens is not four
    { <<<<"g", "a", "r", "b", "a", "g", "e">>, Malformed("tokens")>>,
      <<Line3(GoodId, GoodPos, GoodSize) \o <<" ", "e", "x", "t", "r", "a">>,
        Malformed("tokens")>>,
      <<GoodId \o <<" ", "@", " ">> \o GoodPos, Malformed("tokens")>>,
      <<<<>>, Malformed("tokens")>> }
    \cup
    \* the id is not a number
    { <<Line3(t, GoodPos, GoodSize), Malformed("id")>> :
        t \in { <<"#", "x">>, <<"#">>, <<"1">>, <<"#", "1", "x">> } }
    \cup
    \* a position field is not a number
    { <<Line3(GoodId, t, GoodSize), Malformed("position")>> :
        t \in { <<"a", ",", "2", ":">>, <<"3", ",", "b", ":">>,
                <<",", "2", ":">>, <<"3", ",", ":">>, <<"-", "3", ",", "2", ":">> } }
    \cup
    \* a size field is not a number
    { <<Line3(GoodId, GoodPos, t), Malformed("size")>> :
        t \in { <<"c", "x", "4">>, <<"5", "x", "d">>, <<"x", "4">>, <<"5", "x">> } }
    \cup
    \* the position has no ','
    { <<Line3(GoodId, t, GoodSize), Malformed("comma")>> :
        t \in { <<"3", "2", ":">>, <<"3", ";", "2", ":">>, <<"3", ":">> } }
    \cup
    \* the size has no 'x'
    { <<Line3(GoodId, GoodPos, t), Malformed("x")>> :
        t \in { <<"5", "4">>, <<"5", "*", "4">>, <<"5">> } }

Adjustments == (-MaxAdj) .. MaxAdj

\* the adjustments of test_part2: "+7\n+7\n-2\n-7\n-4"
TestAdjustments == <<7, 7, -2, -7, -4>>

AdjustmentLists == SeqsUpTo(Adjustments, MaxLen) \cup {TestAdjustments}

(***************************************************************************)
(* Specification of the Rect geometry: a.intersect(&b) and a.holes()       *)
(***************************************************************************)
IdleRect == Rect(0, 0, 0, 0)

InitRect ==
    /\ \E ab \in (Rects \X Rects) \cup {<<TestR1, TestR2>>, <<TestR2, TestR1>>} :
           a = ab[1] /\ b = ab[2]
    /\ isect = Unset /\ hs = Unset
    /\ input = <<>> /\ result = Unset
    /\ line = <<>> /\ parsed = Unset /\ fields = Unset
    /\ adjustments = <<>> /\ pos = 1 /\ freq = 0 /\ frequencies = {}
    /\ answer = Unset /\ pc = "idle"

Intersect ==
    /\ isect = Unset
    /\ isect' = intersect(a, b)
    /\ UNCHANGED <<a, b, hs, input, result, line, parsed, fields,
                   adjustments, pos, freq, frequencies, answer, pc>>

Holes ==
    /\ hs = Unset
    /\ hs' = [tag |-> "Set", points |-> holes(a)]
    /\ UNCHANGED <<a, b, isect, input, result, line, parsed, fields,
                   adjustments, pos, freq, frequencies, answer, pc>>

NextRect == Intersect \/ Holes

SpecRect == InitRect /\ [][NextRect]_vars

(***************************************************************************)
(* Specification of part1                                                  *)
(***************************************************************************)
InitPart1 ==
    /\ input \in SeqsUpTo(Cells, MaxRects) \cup {ExampleInput}
    /\ result = Unset
    /\ a = IdleRect /\ b = IdleRect /\ isect = Unset /\ hs = Unset
    /\ line = <<>> /\ parsed = Unset /\ fields = Unset
    /\ adjustments = <<>> /\ pos = 1 /\ freq = 0 /\ frequencies = {}
    /\ answer = Unset /\ pc = "idle"

Part1 ==
    /\ result = Unset
    /\ result' = [tag |-> "Printed", value |-> part1(input)]
    /\ UNCHANGED <<a, b, isect, hs, input, line, parsed, fields,
                   adjustments, pos, freq, frequencies, answer, pc>>

NextPart1 == Part1

SpecPart1 == InitPart1 /\ [][NextPart1]_vars

(***************************************************************************)
(* Specification of Rect::from_str                                         *)
(***************************************************************************)
InitParse ==
    /\ \E lf \in ValidLines \cup MalformedLines :
           line = lf[1] /\ fields = lf[2]
    /\ parsed = Unset
    /\ a = IdleRect /\ b = IdleRect /\ isect = Unset /\ hs = Unset
    /\ input = <<>> /\ result = Unset
    /\ adjustments = <<>> /\ pos = 1 /\ freq = 0 /\ frequencies = {}
    /\ answer = Unset /\ pc = "idle"

FromStr ==
    /\ parsed = Unset
    /\ parsed' = from_str(line)
    /\ UNCHANGED <<a, b, isect, hs, input, result, line, fields,
                   adjustments, pos, freq, frequencies, answer, pc>>

NextParse == FromStr

SpecParse == InitParse /\ [][NextParse]_vars

(***************************************************************************)
(* Specification of do_part2.  One step pulls one element through          *)
(* cycle(), scan() and filter(); nth(0) returns the first element that     *)
(* passes the filter.  cycle() over no lines ends at once and unwrap()     *)
(* panics.  Running totals are followed up to MaxFreq in magnitude.        *)
(***************************************************************************)
InitDay1 ==
    /\ adjustments \in AdjustmentLists
    /\ pos = 1 /\ freq = 0 /\ frequencies = InitialFrequencies
    /\ answer = Unset /\ pc = "run"
    /\ a = IdleRect /\ b = IdleRect /\ isect = Unset /\ hs = Unset
    /\ input = <<>> /\ result = Unset
    /\ line = <<>> /\ parsed = Unset /\ fields = Unset

NextFrequency ==
    /\ pc = "run"
    /\ IF adjustments = <<>>
       THEN /\ pc' = "panic"
            /\ UNCHANGED <<pos, freq, frequencies, answer>>
       ELSE LET f == freq + adjustments[pos]
            IN  /\ f \in (-MaxFreq) .. MaxFreq
                /\ freq' = f
                /\ pos' = (pos % Len(adjustments)) + 1
                /\ IF f \in frequencies
                   THEN /\ answer' = [tag |-> "Returned", value |-> f]
                        /\ pc' = "done"
                        /\ UNCHANGED frequencies
                   ELSE /\ frequencies' = frequencies \cup {f}
                        /\ UNCHANGED <<answer, pc>>
    /\ UNCHANGED <<a, b, isect, hs, input, result, line, parsed, fields,
                   adjustments>>

NextDay1 == NextFrequency

\* the loop of nth(0) runs until it has its element
SpecDay1 == InitDay1 /\ [][NextDay1]_vars /\ WF_vars(NextFrequency)

(***************************************************************************)
(* Reference notions the claims are stated in                              *)
(***************************************************************************)
\* the unit squares of r: x <= px <= x+width-1 and y <= py <= y+height-1
UnitSquares(r) ==
    { Point(px, py) : px \in r.x .. (r.x + r.width - 1),
                      py \in r.y .. (r.y + r.height - 1) }

ShareUnitSquare(r, q) == UnitSquares(r) \cap UnitSquares(q) # {}

\* the unit squares covered by two or more of the Rects of in
CoveredTwice(in) ==
    { p \in UNION { UnitSquares(in[i]) : i \in 1 .. Len(in) } :
        Cardinality({ i \in 1 .. Len(in) : p \in UnitSquares(in[i]) }) >= 2 }

Permutations(n) ==
    { f \in [1 .. n -> 1 .. n] : \A i, j \in 1 .. n : f[i] = f[j] => i = j }

Permuted(in, f) == [k \in 1 .. Len(in) |-> in[f[k]]]

\* the running totals after 1, 2, ..., n adjustments of the cycled list
RECURSIVE RunningTotals(_, _)
RunningTotals(adj, n) ==
    IF n = 0 THEN <<>>
    ELSE LET t == RunningTotals(adj, n - 1)
         IN  Append(t, (IF n = 1 THEN 0 ELSE t[n - 1])
                       + adj[((n - 1) % Len(adj)) + 1])

MaxSteps == 2 * MaxFreq + 2

RepeatsAt(t, k) == t[k] = 0 \/ \E j \in 1 .. (k - 1) : t[j] = t[k]

\* some running total repeats, and no total up to there exceeds MaxFreq
RepeatsWithinBound(adj) ==
    /\ adj # <<>>
    /\ LET t == RunningTotals(adj, MaxSteps)
       IN  \E k \in 1 .. MaxSteps :
              /\ RepeatsAt(t, k)
              /\ \A m \in 1 .. k : t[m] \in (-MaxFreq) .. MaxFreq

\* the first running total that equals an earlier one (0 included)
FirstRepeatedTotal(adj) ==
    LET t == RunningTotals(adj, MaxSteps)
        k == CHOOSE n \in 1 .. MaxSteps :
                 RepeatsAt(t, n) /\ \A m \in 1 .. (n - 1) : ~RepeatsAt(t, m)
    IN  t[k]

(***************************************************************************)
(* Claims                                                                  *)
(***************************************************************************)
\* C1: the number part1 prints is the number of unit squares covered by two
\* or more of the input Rects; for the puzzle's example it is 4.
C1_OverlapArea ==
    result.tag = "Printed" =>
        /\ result.value = Cardinality(CoveredTwice(input))
        /\ (input = ExampleInput => result.value = 4)

\* C2: for Rects of positive width and height, intersect returns Some
\* exactly when the two share a unit square; Rects that only touch along an
\* edge get None.
C2_SomeIffShareUnitSquare ==
    (isect # Unset /\ a.width > 0 /\ a.height > 0 /\ b.width > 0 /\ b.height > 0) =>
        (isect.tag = "Some" <=> ShareUnitSquare(a, b))

\* C3: holes yields exactly width * height points, the unit squares of the
\* Rect.
C3_HolesAreUnitSquares ==
    hs # Unset =>
        /\ Cardinality(hs.points) = a.width * a.height
        /\ hs.points = UnitSquares(a)

\* C4 as stated: a well-formed line parses to a Rect that carries id, x, y,
\* width and height of the line.
C4_ParsedCarriesFiveFields ==
    (parsed # Unset /\ fields.tag = "Valid") =>
        /\ parsed.tag = "Ok"
        /\ parsed.value = [id |-> fields.id, x |-> fields.x, y |-> fields.y,
                           width |-> fields.width, height |-> fields.height]

\* C4 amended: a well-formed line parses to a Rect that carries x, y, width
\* and height of the line; the Rect has no id.
C4_ParsedCarriesGeometry ==
    (parsed # Unset /\ fields.tag = "Valid") =>
        parsed = Ok(Rect(fields.x, fields.y, fields.width, fields.height))

C4_Witness ==
    /\ line = FormatLine(123, 3, 2, 5, 4)
    /\ parsed = Ok(Rect(3, 2, 5, 4))

\* C5: a malformed line (wrong token count, a non-numeric id, position or
\* size, a position without ',', a size without 'x') ends in an error
\* returned to the caller, and no Rect is produced.
C5_MalformedIsReturnedError ==
    (parsed # Unset /\ fields.tag = "Malformed") => parsed.tag = "Err"

\* C6: when no two Rects of the input share a unit square, part1 prints 0.
C6_DisjointGivesZero ==
    (/\ result.tag = "Printed"
     /\ \A i, j \in 1 .. Len(input) :
            i # j => ~ShareUnitSquare(input[i], input[j])) =>
        result.value = 0

\* C7: the number part1 prints is the same for every permutation of the
\* input, and a Rect that occurs twice has all its unit squares counted.
C7_OrderAndDuplicates ==
    result.tag = "Printed" =>
        /\ \A f \in Permutations(Len(input)) :
              part1(Permuted(input, f)) = result.value
        /\ \A i, j \in 1 .. Len(input) :
              (i # j /\ input[i] = input[j]) =>
                  result.value >= input[i].width * input[i].height

\* C8: a.intersect(b) and b.intersect(a) are both None or both Some of the
\* same Rect, also when a.x = b.x or a.y = b.y.
C8_IntersectSymmetric ==
    isect # Unset => isect = intersect(b, a)

C8_Witness ==
    /\ isect.tag = "Some"
    /\ a.x = b.x /\ a.y = b.y
    /\ a.width < b.width /\ a.height > b.height

\* C9: do_part2 has 0 recorded as seen from the start, and returns the
\* first running total of the cycled list that was seen before; whenever
\* some running total repeats, the loop ends with that total.
C9_FirstRepeatedTotal ==
    /\ [](0 \in frequencies)
    /\ [](pc = "done" =>
            answer = [tag |-> "Returned", value |-> FirstRepeatedTotal(adjustments)])
    /\ (RepeatsWithinBound(adjustments) ~> pc = "done")

C9_Witness ==
    /\ adjustments = TestAdjustments
    /\ pc = "done"
    /\ answer = [tag |-> "Returned", value |-> 14]

\* C10: Some(r) has x = max of the x's, y = max of the y's, width = min of
\* the right edges - x and height = min of the bottom edges - y, and neither
\* difference is negative.
C10_IntersectionFields ==
    isect.tag = "Some" =>
        LET r == isect.rect
        IN  /\ r.x = Max(a.x, b.x)
            /\ r.y = Max(a.y, b.y)
            /\ r.width = Min(a.x + a.width, b.x + b.width) - r.x
            /\ r.height = Min(a.y + a.height, b.y + b.height) - r.y
            /\ r.width >= 0 /\ r.height >= 0
            /\ (a = TestR1 /\ b = TestR2 => r = Rect(4, 2, 1, 5))

C10_Witness ==
    /\ a = TestR1 /\ b = TestR2
    /\ isect = Some(Rect(4, 2, 1, 5))

\* C11: holes(r) contains (px, py) exactly when r.x <= px <= r.x + r.width
\* and r.y <= py <= r.y + r.height: the corners (r.x, r.y) and
\* (r.x + r.width, r.y + r.height) are in the set, the points one step
\* further left, right, up or down are not.
C11_HolesMembership ==
    hs # Unset =>
        /\ \A px \in (a.x - 1) .. (a.x + a.width + 1),
              py \in (a.y - 1) .. (a.y + a.height + 1) :
              Point(px, py) \in hs.points <=>
                  (/\ a.x <= px /\ px <= a.x + a.width
                   /\ a.y <= py /\ py <= a.y + a.height)
        /\ \A p \in hs.points :
              /\ a.x <= p.x /\ p.x <= a.x + a.width
              /\ a.y <= p.y /\ p.y <= a.y + a.height
        /\ (a = TestR1 =>
              /\ Point(3, 1) \in hs.points /\ Point(5, 7) \in hs.points
              /\ Point(5, 8) \notin hs.points /\ Point(6, 3) \notin hs.points
              /\ Point(3, 0) \notin hs.points /\ Point(2, 3) \notin hs.points)

C11_Witness ==
    /\ a = TestR1
    /\ hs # Unset
    /\ Point(5, 7) \in hs.points
    /\ Cardinality(hs.points) = 21

====
